---- MODULE Spec2Model ----
(***************************************************************************)
(* Model of main.py: the FastAPI unit-test generator.                      *)
(*                                                                         *)
(* Text is modelled as a sequence of tokens.  A token is a single          *)
(* character where the code looks at characters (app_path) and an opaque   *)
(* literal elsewhere; string concatenation is sequence concatenation.      *)
(***************************************************************************)
EXTENDS Integers, Sequences, FiniteSets, TLC

(* ------------------------------ bounds --------------------------------- *)
MaxRoutes == 3
MaxPathLen == 3

(* --------------------------- program constants ------------------------- *)
LoadError == "Failed to load FastAPI instance"
NL == "\n"

(* ------------------------------ text helpers --------------------------- *)
RECURSIVE SeqsUpTo(_, _)
SeqsUpTo(S, n) ==
  IF n = 0 THEN {<<>>}
  ELSE LET shorter == SeqsUpTo(S, n - 1)
       IN  shorter \cup {Append(s, c) : s \in shorter, c \in S}

\* str.replace(old, new) for single-character old/new.
Replace(s, old, new) == [i \in 1..Len(s) |-> IF s[i] = old THEN new ELSE s[i]]

\* str.rstrip(chars): drops every trailing character that is in chars.
RECURSIVE RStrip(_, _)
RStrip(s, chars) ==
  IF s # <<>> /\ s[Len(s)] \in chars
  THEN RStrip(SubSeq(s, 1, Len(s) - 1), chars)
  ELSE s

\* The character set of the literal ".py" given to rstrip.
DotPy == {".", "p", "y"}

\* main.py:20, the argument of import_module.
ImportName(path) == RStrip(Replace(Replace(path, "/", "."), "\\", "."), DotPy)

\* main.py:115, the module written after "from".
HeaderName(path) == RStrip(Replace(path, "/", "."), DotPy)

\* The lines of a text: the pieces between newline tokens.
RECURSIVE SplitLines(_, _)
SplitLines(text, cur) ==
  IF text = <<>> THEN (IF cur = <<>> THEN <<>> ELSE <<cur>>)
  ELSE IF Head(text) = NL THEN <<cur>> \o SplitLines(Tail(text), <<>>)
  ELSE SplitLines(Tail(text), Append(cur, Head(text)))

Lines(text) == SplitLines(text, <<>>)

IsPrefix(p, s) == Len(p) <= Len(s) /\ SubSeq(s, 1, Len(p)) = p

(* ------------------------------ routes --------------------------------- *)
PyNone == "PyNone"

\* The attributes each kind of route object carries.
RouteAttrs(kind) ==
  CASE kind = "APIRoute" -> {"path", "methods", "name", "response_model", "body_field"}
    [] kind = "Route" -> {"path", "methods", "name"}
    [] kind = "WebSocketRoute" -> {"path", "name"}
    [] OTHER -> {}

Routes ==
  { [kind |-> "APIRoute", path |-> "/a", methods |-> {"GET"}, name |-> "ra",
     response_model |-> "Item", body_field |-> PyNone],
    [kind |-> "Route", path |-> "/b", methods |-> {"GET", "HEAD"}, name |-> "rb",
     response_model |-> PyNone, body_field |-> PyNone],
    [kind |-> "WebSocketRoute", path |-> "/ws", methods |-> {}, name |-> "ws",
     response_model |-> PyNone, body_field |-> PyNone],
    [kind |-> "BaseRoute", path |-> "", methods |-> {}, name |-> "",
     response_model |-> PyNone, body_field |-> PyNone] }

hasattr(route, attr) == attr \in RouteAttrs(route.kind)

\* str(getattr(route, attr, None))
StrGetattr(route, attr) ==
  LET v == IF hasattr(route, attr) THEN route[attr] ELSE PyNone
  IN  IF v = PyNone THEN "None" ELSE v

Descriptor(route) ==
  [path |-> route.path, method |-> route.methods, name |-> route.name,
   response_model |-> StrGetattr(route, "response_model"),
   body_field |-> StrGetattr(route, "body_field")]

RECURSIVE get_endpoint_details_unfiltered(_)
get_endpoint_details_unfiltered(routes) ==
  IF routes = <<>> THEN <<>>
  ELSE <<Descriptor(Head(routes))>> \o get_endpoint_details_unfiltered(Tail(routes))

RECURSIVE get_endpoint_details_prepend(_)
get_endpoint_details_prepend(routes) ==
  IF routes = <<>> THEN <<>>
  ELSE LET rest == get_endpoint_details_prepend(Tail(routes))
           r == Head(routes)
       IN  IF hasattr(r, "methods") /\ hasattr(r, "path")
           THEN rest \o <<Descriptor(r)>>
           ELSE rest

RECURSIVE get_endpoint_details(_)
get_endpoint_details(routes) ==
  IF routes = <<>> THEN <<>>
  ELSE LET rest == get_endpoint_details(Tail(routes))
           r == Head(routes)
       IN  IF hasattr(r, "methods") /\ hasattr(r, "path")
           THEN <<Descriptor(r)>> \o rest
           ELSE rest

(* --------------------------- loading the app --------------------------- *)
\* What import_module finds under a module name: it raises, or it yields a
\* module whose attribute app_name is absent, a non-FastAPI object, or a
\* FastAPI instance with a route table.
RouteLists == SeqsUpTo(Routes, MaxRoutes)

Modules ==
  {[raises |-> TRUE, attr |-> "absent", routes |-> <<>>]}
  \cup {[raises |-> FALSE, attr |-> a, routes |-> <<>>] : a \in {"absent", "other"}}
  \cup {[raises |-> FALSE, attr |-> "FastAPI", routes |-> rs] : rs \in RouteLists}

\* import_module(name): an empty name and a relative name without a package
\* raise whatever the file system holds.
ImportRaises(name, mod) == name = <<>> \/ Head(name) = "." \/ mod.raises

\* getattr(module, app_name, None)
GetattrModule(mod) ==
  IF mod.attr = "absent" THEN [type |-> "NoneType", routes |-> <<>>]
  ELSE [type |-> mod.attr, routes |-> mod.routes]

isinstance_FastAPI(obj) == obj.type = "FastAPI"

NoApp == [type |-> "NoneType", routes |-> <<>>]

\* Lines 20-24, the body of the try block: the exception it ends with, or
\* the object it returns.
TryLoad(path, mod) ==
  IF ImportRaises(ImportName(path), mod)
  THEN [raised |-> TRUE, exc |-> "ImportError", value |-> NoApp]
  ELSE LET obj == GetattrModule(mod)
       IN  IF ~isinstance_FastAPI(obj)
           THEN [raised |-> TRUE, exc |-> "ValueError", value |-> NoApp]
           ELSE [raised |-> FALSE, exc |-> "", value |-> obj]

get_fastapi_app_unchecked(path, mod) ==
  IF ImportRaises(ImportName(path), mod)
  THEN [raised |-> TRUE, exc |-> LoadError, value |-> NoApp]
  ELSE [raised |-> FALSE, exc |-> "", value |-> GetattrModule(mod)]

get_fastapi_app_swallow(path, mod) ==
  LET r == TryLoad(path, mod)
  IN  IF r.raised
      THEN [raised |-> FALSE, exc |-> "", value |-> [type |-> "FastAPI", routes |-> <<>>]]
      ELSE r

\* Lines 19-26: every exception of the try block, the ValueError of line 23
\* included, is replaced by the generic one of line 26.
get_fastapi_app(path, mod) ==
  LET r == TryLoad(path, mod)
  IN  IF r.raised
      THEN [raised |-> TRUE, exc |-> LoadError, value |-> NoApp]
      ELSE r

(* --------------------------- the model's reply ------------------------- *)
\* What chain.invoke does for one descriptor: it raises, or the parser
\* yields a dict without test_code, with a string test_code, or with a
\* test_code that is not a string (JSON null).
Replies ==
  { [tag |-> "raise", has |-> FALSE, isStr |-> FALSE, val |-> "boom"],
    [tag |-> "dict", has |-> FALSE, isStr |-> FALSE, val |-> ""],
    [tag |-> "dict", has |-> TRUE, isStr |-> TRUE, val |-> "code1"],
    [tag |-> "dict", has |-> TRUE, isStr |-> TRUE, val |-> "code2"],
    [tag |-> "dict", has |-> TRUE, isStr |-> FALSE, val |-> "null"] }

ErrorPrefix == "# Error generating test case for "
NoCodePrefix == "# Error: No test code generated for "

PyStr(text) == [isStr |-> TRUE, text |-> text]

\* The value generated_test_case returns.
generated_test_case(endpoint, reply) ==
  IF reply.tag = "raise"
  THEN PyStr(<<ErrorPrefix, endpoint.path, ": ", reply.val>>)
  ELSE IF reply.has
       THEN [isStr |-> reply.isStr, text |-> <<reply.val>>]
       ELSE PyStr(<<NoCodePrefix, endpoint.path>>)

(* ------------------------------ the file ------------------------------- *)
HeaderText_nohttpx(path, name) ==
  <<"from fastapi.testclient import TestClient", NL>>
  \o <<"import pytest", NL>>
  \o <<"from ">> \o HeaderName(path) \o <<" import ", name, NL, NL>>
  \o <<"client = TestClient(app)", NL, NL>>

\* The five writes of lines 112-116.
HeaderText(path, name) ==
  <<"from fastapi.testclient import TestClient", NL>>
  \o <<"import pytest", NL>>
  \o <<"import httpx", NL, NL>>
  \o <<"from ">> \o HeaderName(path) \o <<" import ", name, NL, NL>>
  \o <<"client = TestClient(app)", NL, NL>>

\* test_code + "\n\n"
BlockText(test_code) == test_code.text \o <<NL, NL>>

RECURSIVE BlocksText(_)
BlocksText(codes) ==
  IF codes = <<>> THEN <<>> ELSE BlockText(Head(codes)) \o BlocksText(Tail(codes))

(* ------------------------------ the run -------------------------------- *)
VARIABLES
  app_path,    \* --app-path, a sequence of characters
  app_name,    \* --app-name
  module,      \* what import_module finds
  dir_exists,  \* whether out_dir exists
  file0,       \* out_dir/test_endpoints.py before the run
  file,        \* out_dir/test_endpoints.py
  pc,          \* position of generate_test
  app,         \* local app of generate_test
  endpoints,   \* local endpoints of generate_test
  idx,         \* position of the for loop of line 118
  imported,    \* the names import_module was called with
  calls,       \* the descriptors generated_test_case was called with
  replies,     \* what chain.invoke did on each call
  returned,    \* the values generated_test_case returned
  exc          \* the exception generate_test ended with, "" if none

vars == <<app_path, app_name, module, dir_exists, file0, file, pc, app,
          endpoints, idx, imported, calls, replies, returned, exc>>

PathChars == {"m", "/", "\\", ".", "p", "y"}

AllPaths == SeqsUpTo(PathChars, MaxPathLen) \ {<<>>}

SamplePaths ==
  { <<"m", "a", "i", "n">>,
    <<"a", "p", "p", "/", "m", "a", "i", "n", ".", "p", "y">>,
    <<"a", "p", "p", "\\", "m", "a", "i", "n">> }

AppNames == {"app", "api"}

NoFile == [exists |-> FALSE, content |-> <<>>]
OldFile == [exists |-> TRUE, content |-> <<"# old tests", NL>>]

InitLocals ==
  /\ file = file0
  /\ pc = "start"
  /\ app = NoApp
  /\ endpoints = <<>>
  /\ idx = 0
  /\ imported = <<>>
  /\ calls = <<>>
  /\ replies = <<>>
  /\ returned = <<>>
  /\ exc = ""

Init ==
  /\ app_path \in SamplePaths
  /\ app_name \in AppNames
  /\ module \in Modules
  /\ dir_exists \in BOOLEAN
  /\ file0 \in {NoFile, OldFile}
  /\ file0.exists => dir_exists
  /\ InitLocals

\* Every short app_path, against one module that holds a FastAPI app.
InitPath ==
  /\ app_path \in AllPaths
  /\ app_name = "app"
  /\ module \in {m \in Modules : m.attr = "FastAPI" /\ Len(m.routes) = 1}
  /\ dir_exists = FALSE
  /\ file0 = NoFile
  /\ InitLocals

SetupOpensFile ==
  /\ pc = "start"
  /\ pc' = "setup"
  /\ dir_exists' = TRUE
  /\ file' = [exists |-> TRUE, content |-> <<>>]
  /\ UNCHANGED <<app_path, app_name, module, file0, app, endpoints, idx,
                 imported, calls, replies, returned, exc>>

\* Lines 105-108: the model client, the prompt and the output directory.
Setup ==
  /\ pc = "start"
  /\ pc' = "setup"
  /\ dir_exists' = TRUE
  /\ UNCHANGED <<app_path, app_name, module, file0, file, app, endpoints, idx,
                 imported, calls, replies, returned, exc>>

\* Line 109.
LoadApp ==
  /\ pc = "setup"
  /\ imported' = Append(imported, ImportName(app_path))
  /\ LET r == get_fastapi_app(app_path, module)
     IN  IF r.raised
         THEN /\ pc' = "failed"
              /\ exc' = r.exc
              /\ app' = app
         ELSE /\ pc' = "loaded"
              /\ exc' = exc
              /\ app' = r.value
  /\ UNCHANGED <<app_path, app_name, module, dir_exists, file0, file,
                 endpoints, idx, calls, replies, returned>>

\* Line 110.
Enumerate ==
  /\ pc = "loaded"
  /\ endpoints' = get_endpoint_details(app.routes)
  /\ pc' = "enumerated"
  /\ UNCHANGED <<app_path, app_name, module, dir_exists, file0, file, app,
                 idx, imported, calls, replies, returned, exc>>

\* Lines 111-116: open(..., "w") truncates, then the five header writes.
WriteHeader ==
  /\ pc = "enumerated"
  /\ file' = [exists |-> TRUE, content |-> HeaderText(app_path, app_name)]
  /\ idx' = 1
  /\ pc' = "writing"
  /\ UNCHANGED <<app_path, app_name, module, dir_exists, file0, app,
                 endpoints, imported, calls, replies, returned, exc>>

GenerateOneSkipWrite ==
  /\ pc = "writing"
  /\ idx <= Len(endpoints)
  /\ \E reply \in Replies :
       LET test_code == generated_test_case(endpoints[idx], reply)
       IN  /\ calls' = Append(calls, endpoints[idx])
           /\ replies' = Append(replies, reply)
           /\ returned' = Append(returned, test_code)
           /\ IF test_code.isStr
              THEN /\ file' = IF reply.tag = "raise" THEN file
                              ELSE [file EXCEPT !.content = @ \o BlockText(test_code)]
                   /\ idx' = idx + 1
                   /\ UNCHANGED <<pc, exc>>
              ELSE /\ pc' = "aborted"
                   /\ exc' = "TypeError"
                   /\ UNCHANGED <<file, idx>>
  /\ UNCHANGED <<app_path, app_name, module, dir_exists, file0, app,
                 endpoints, imported>>

\* Lines 118-120, one iteration: the concatenation of line 120 raises a
\* TypeError when test_code is not a string, which ends the run.
GenerateOne ==
  /\ pc = "writing"
  /\ idx <= Len(endpoints)
  /\ \E reply \in Replies :
       LET test_code == generated_test_case(endpoints[idx], reply)
       IN  /\ calls' = Append(calls, endpoints[idx])
           /\ replies' = Append(replies, reply)
           /\ returned' = Append(returned, test_code)
           /\ IF test_code.isStr
              THEN /\ file' = [file EXCEPT !.content = @ \o BlockText(test_code)]
                   /\ idx' = idx + 1
                   /\ UNCHANGED <<pc, exc>>
              ELSE /\ pc' = "aborted"
                   /\ exc' = "TypeError"
                   /\ UNCHANGED <<file, idx>>
  /\ UNCHANGED <<app_path, app_name, module, dir_exists, file0, app,
                 endpoints, imported>>

\* Line 122, after the loop.
Finish ==
  /\ pc = "writing"
  /\ idx > Len(endpoints)
  /\ pc' = "done"
  /\ UNCHANGED <<app_path, app_name, module, dir_exists, file0, file, app,
                 endpoints, idx, imported, calls, replies, returned, exc>>

\* generate_test, lines 103-122.
Next == Setup \/ LoadApp \/ Enumerate \/ WriteHeader \/ GenerateOne \/ Finish

Spec == Init /\ [][Next]_vars

SpecPath == InitPath /\ [][Next]_vars

(* ------------------------------ properties ------------------------------ *)
Loaded == imported # <<>>
Enumerated == pc \in {"enumerated", "writing", "done", "aborted"}
FileWritten == pc \in {"writing", "done", "aborted"}

\* The positions of the routes that expose both attributes.
Exposing(routes) ==
  {i \in 1..Len(routes) : hasattr(routes[i], "path") /\ hasattr(routes[i], "methods")}

\* The position, among the exposing routes, of the exposing route at i.
Rank(routes, i) == Cardinality({j \in Exposing(routes) : j <= i})

IsStrValue(v) == v.isStr

\* The returned values that line 120 could concatenate and write.
Written == SelectSeq(returned, IsStrValue)

\* C1: once get_fastapi_app has run, an attribute that is absent or is not a
\* FastAPI instance has made the call raise, no object was returned to the
\* caller, and a value was returned only for a FastAPI attribute.
C1_RejectsNonFastAPI ==
  Loaded =>
    /\ (~module.raises /\ module.attr \in {"absent", "other"})
         => (pc = "failed" /\ exc # "" /\ app = NoApp)
    /\ pc # "failed"
         => (module.attr = "FastAPI" /\ app.type = "FastAPI"
             /\ app.routes = module.routes)

C1_Witness ==
  /\ pc = "failed"
  /\ ~module.raises
  /\ module.attr = "other"
  /\ imported = <<ImportName(app_path)>>

\* C2: the descriptors are, in route order, exactly the routes that expose
\* both path and methods, each with the route's path and methods copied.
C2_OneDescriptorPerExposingRoute ==
  Enumerated =>
    /\ Len(endpoints) = Cardinality(Exposing(app.routes))
    /\ \A i \in Exposing(app.routes) :
         /\ endpoints[Rank(app.routes, i)].path = app.routes[i].path
         /\ endpoints[Rank(app.routes, i)].method = app.routes[i].methods

C2_Witness ==
  /\ pc = "enumerated"
  /\ Len(app.routes) = 3
  /\ Len(endpoints) = 2
  /\ ~hasattr(app.routes[2], "methods")
  /\ endpoints[1].path # endpoints[2].path

\* C3: when chain.invoke raises for descriptor i, the value returned is a
\* string starting with the error prefix and the path, it is written as
\* block i, and the run goes on to call the model and write a block for
\* every later descriptor.
C3_FailureDoesNotAbort ==
  \A i \in 1..Len(replies) :
    replies[i].tag = "raise" =>
      /\ returned[i].isStr
      /\ IsPrefix(<<ErrorPrefix, calls[i].path>>, returned[i].text)
      /\ IsPrefix(HeaderText(app_path, app_name) \o BlocksText(SubSeq(returned, 1, i)),
                  file.content)
      /\ pc \in {"done", "aborted"} =>
           /\ calls = endpoints
           /\ file.content = HeaderText(app_path, app_name) \o BlocksText(returned)

\* C4: a written file starts with the three import lines, and the client
\* line comes before every test block.
C4_HeaderFirst ==
  FileWritten =>
    LET ls == Lines(file.content)
    IN  /\ Len(ls) >= 3
        /\ ls[1] = <<"from fastapi.testclient import TestClient">>
        /\ ls[2] = <<"import pytest">>
        /\ ls[3] = <<"import httpx">>
        /\ \E k \in 1..Len(file.content) :
             /\ file.content[k] = "client = TestClient(app)"
             /\ \A j \in 1..k : \A v \in {returned[n] : n \in 1..Len(returned)} :
                  file.content[j] \notin {v.text[m] : m \in 1..Len(v.text)}
             /\ SubSeq(file.content, k + 3, Len(file.content)) = BlocksText(Written)

C4_Witness ==
  /\ pc = "done"
  /\ app_name = "api"
  /\ Len(returned) = 2

\* C5: after a run that completes, the file is the boilerplate followed by
\* one block per descriptor, in descriptor order, block i being the value
\* returned for descriptor i.
C5_OneBlockPerDescriptor ==
  pc = "done" =>
    /\ calls = endpoints
    /\ Len(returned) = Len(endpoints)
    /\ \A i \in 1..Len(returned) :
         returned[i] = generated_test_case(endpoints[i], replies[i])
    /\ file.content = HeaderText(app_path, app_name) \o BlocksText(returned)

C5_Witness ==
  /\ pc = "done"
  /\ Len(endpoints) = 3
  /\ replies[1].tag = "raise"
  /\ replies[2].val = "code1"
  /\ ~replies[3].has

\* C6: a failing import, a missing attribute and a non-FastAPI attribute all
\* end get_fastapi_app with the generic error, and the run stops there: no
\* enumeration, no model call, no block, no further step.
C6_LoadFailureHalts ==
  (Loaded /\ (ImportRaises(ImportName(app_path), module) \/ module.attr # "FastAPI")) =>
    /\ pc = "failed"
    /\ exc = LoadError
    /\ endpoints = <<>>
    /\ calls = <<>>
    /\ returned = <<>>
    /\ ~ENABLED Next

C6_Witness ==
  /\ pc = "failed"
  /\ module.raises
  /\ exc = LoadError

\* C7 as stated: the number of descriptors is the number of routes.
C7_OnePerRoute == Enumerated => Len(endpoints) = Len(app.routes)

\* C7 amended: the number of descriptors is the number of routes that expose
\* both path and methods, which is the number of routes exactly when every
\* route exposes both.
C7_OnePerExposingRoute ==
  Enumerated =>
    /\ Len(endpoints) = Cardinality(Exposing(app.routes))
    /\ Len(endpoints) <= Len(app.routes)
    /\ (Len(endpoints) = Len(app.routes)) <=> (Exposing(app.routes) = 1..Len(app.routes))

C7_Witness ==
  /\ pc = "enumerated"
  /\ Len(app.routes) = 3
  /\ Len(endpoints) = 1

\* C8: when loading the app fails, test_endpoints.py is as it was before the
\* run: still absent, or still holding its old content.
C8_FailedLoadLeavesFile == pc = "failed" => file = file0

C8_Witness ==
  /\ pc = "failed"
  /\ file0 = OldFile
  /\ dir_exists

\* C9: the module named in the header line "from <module> import <app_name>"
\* is the name that was given to import_module.
C9_SameModuleName ==
  FileWritten =>
    LET ls == Lines(file.content)
    IN  /\ Len(ls) >= 5
        /\ Len(imported) = 1
        /\ ls[5] = <<"from ">> \o imported[1] \o <<" import ", app_name>>

\* C10: when chain.invoke returns a dict, the value returned is the
\* test_code field if there is one and the no-code placeholder otherwise,
\* and in both cases the run goes on to the next route.
C10_DictReplyContinues ==
  \A i \in 1..Len(replies) :
    replies[i].tag = "dict" =>
      /\ replies[i].has => returned[i].text = <<replies[i].val>>
      /\ ~replies[i].has => returned[i] = PyStr(<<NoCodePrefix, calls[i].path>>)
      /\ idx > i

====
